---- MODULE Spec2Model ----
(***************************************************************************)
(* Transmit-path mode arbitration of the AD9081 DAC channels, as exercised *)
(* by libiio_examples/processed_patch_test/ad9081_processed_test.c.        *)
(*                                                                         *)
(* The driver that arbitrates between the DDS ("raw"), the DMA buffer and  *)
(* the processed ("input") source is not among the C sources; what it does *)
(* is pinned down by the calls the patch test makes and the values it      *)
(* asserts after each call.  Every driver operation below is translated    *)
(* from the place of the test that exercises it.  The few branches the     *)
(* test never exercises (a raw write or an input disable while a buffer is *)
(* open) follow the mapping table of the specification and are marked.     *)
(***************************************************************************)
EXTENDS Integers, Naturals, Sequences, FiniteSets, TLC

(* Number of I/Q pairs: NUM_TX_CH of the sources (8 unless given at build  *)
(* time); the model is built with a smaller number of pairs.               *)
NUM_TX_CH == 3

(* Control-register encodings the test compares against. *)
DATA_SEL_DDS == 0
DATA_SEL_DMA == 2
DATA_SEL_ZERO == 3

(* errno value behind -EBUSY. *)
EBUSY == 16

Channels == 0 .. (NUM_TX_CH - 1)
Regs == 0 .. (NUM_TX_CH * 2 - 1)
Sels == {DATA_SEL_DDS, DATA_SEL_DMA, DATA_SEL_ZERO}

VARIABLES
    raw_requested,      \* [Channels -> BOOLEAN]: last accepted "raw" request
    buffer_open,        \* [Channels -> BOOLEAN]: a stream buffer owns the pair
    processed_enabled,  \* [Channels -> BOOLEAN]: the "input" attribute
    register_value,     \* [Regs -> Sels]: DAC channel control registers
    enabled,            \* pairs whose dac_i/dac_q are enabled for buffering
    result,             \* return code of the last attribute call
    bval,               \* value returned by the last read of "input"
    uval,               \* value returned by the last register read
    sample_buff,        \* TRUE when the caller holds a buffer handle
    last,               \* the last call made: [op, ch, val]
    prev,               \* the device state that call started from
    pc,                 \* position of the patch test's main
    i,                  \* loop counter of the patch test's main
    ret,                \* main's ret
    ctx,                \* TRUE when the IIO context exists
    failure_line,       \* __LINE__ printed by a failed TEST_ASSERT, 0 if none
    stop_loop,          \* set by handle_sig on SIGINT
    written,            \* TRUE once samples were written into the buffer
    pushed,             \* number of buffers pushed, up to MaxPush
    prog,               \* the example program that runs, "none" for a caller
    frequency,          \* the "frequency" attribute of the HMC7044 channel
    dummy_buff,         \* hmc7044 example: the attribute read as text
    dummy_double,       \* hmc7044 example: the attribute read as a double
    dummy_int,          \* hmc7044 example: the attribute read as a long long
    ramp_i,             \* [Channels -> 0 .. 2^16 - 1]: tx_channels[c].ramp_i
    ramp_q,             \* [Channels -> 0 .. 2^16 - 1]: tx_channels[c].ramp_q
    frame,              \* the samples of the frame being written, in order
    tone_config,        \* the dds_default_config_t given to load_dds_tone
    dds                 \* attributes of the four DDS channels of one output

devvars == <<raw_requested, buffer_open, processed_enabled, register_value>>
obsvars == <<result, bval, uval, sample_buff>>
hmcvars == <<frequency, dummy_buff, dummy_double, dummy_int>>
rampvars == <<ramp_i, ramp_q, frame>>
ddsvars == <<tone_config, dds>>
txvars == <<stop_loop, written, pushed, prog, hmcvars, rampvars, ddsvars>>
progvars == <<pc, i, ret, ctx, failure_line, stop_loop, written, pushed,
              prog, hmcvars, rampvars, ddsvars>>
vars == <<raw_requested, buffer_open, processed_enabled, register_value,
          enabled, result, bval, uval, sample_buff, last, prev,
          pc, i, ret, ctx, failure_line, stop_loop, written, pushed, prog,
          frequency, dummy_buff, dummy_double, dummy_int,
          ramp_i, ramp_q, frame, tone_config, dds>>

(* The two control words (I and Q) of pair c. *)
RegsOf(c) == {2 * c, 2 * c + 1}
PairOf(r) == r \div 2

(* Snapshot of the device, kept in prev by every call. *)
Device ==
    [raw |-> raw_requested, buf |-> buffer_open,
     proc |-> processed_enabled, reg |-> register_value]

Call(op, c, v) == [op |-> op, ch |-> c, val |-> v]

(***************************************************************************)
(* Mapping table of the specification, section 4.1.                        *)
(***************************************************************************)
MappingTable(raw, buf, proc) ==
    IF proc THEN DATA_SEL_DMA
    ELSE IF buf THEN DATA_SEL_DMA
    ELSE IF raw THEN DATA_SEL_DDS
    ELSE DATA_SEL_ZERO

(***************************************************************************)
(* Driver operations, each from the call of the patch test that exercises  *)
(* it and the values the test asserts afterwards.                          *)
(***************************************************************************)

(* Slip: an attribute write acting on the pair it is written through only. *)
Affected_OnlyNamed(c) == {c}

(* The pairs an attribute written through pair c acts on: the "raw" and    *)
(* "input" attributes are written through pair 0 alone and every one of    *)
(* the NUM_TX_CH * 2 registers follows.                                    *)
Affected(c) == Channels

(* Slip: Zero selected whatever is requested. *)
RawSel_AlwaysZero(requested) == DATA_SEL_ZERO

(* Register selection a raw write asks for: DDS for raw = 1, Zero for      *)
(* raw = 0.                                                                *)
RawSel(requested) == IF requested THEN DATA_SEL_DDS ELSE DATA_SEL_ZERO

(* Slips of the destroy path: the DMA selection left in place, or the     *)
(* selection of the stored raw request restored.                           *)
CloseSel_KeepsDma(raw) == DATA_SEL_DMA
CloseSel_PerRaw(raw) == RawSel(raw)

(* Register selection once a buffer is destroyed: back to DDS.             *)
CloseSel(raw) == DATA_SEL_DDS

(* Slip of the disable path: the selection of the stored raw request.     *)
DisableSel_PerRaw(raw) == RawSel(raw)

(* Register selection once "input" is written 0: back to DDS.              *)
DisableSel(raw) == DATA_SEL_DDS

(* A pair whose buffer is open keeps streaming whatever raw request is     *)
(* made (mapping table, row buffer_open = true); the test never writes raw *)
(* under an open buffer.                                                   *)
StreamHeld(buf, sel) == IF buf THEN DATA_SEL_DMA ELSE sel

(* Slip: the raw lock-out missing. *)
raw_busy_Never(c) == FALSE

(* "raw" is locked out while "input" is enabled. *)
raw_busy(c) == processed_enabled[c]

(* Slips: the input lock-out missing, or its buffer test inverted. *)
input_busy_Never(c, enable) == FALSE
input_busy_Inverted(c, enable) == enable /\ ~buffer_open[c]

(* Slip: "input" also refused while raw = 0 is requested. *)
input_busy_UnderZero(c, enable) ==
    enable /\ (buffer_open[c] \/ ~raw_requested[c])

(* Slip: the lock-out outlives the buffer, "input" staying refused once a  *)
(* buffer has been created.                                                *)
input_busy_Sticky(c, enable) == enable /\ (buffer_open[c] \/ sample_buff)

(* "input" cannot be enabled while a buffer is open. *)
input_busy(c, enable) == enable /\ buffer_open[c]

(* Slip: the buffer lock-out missing. *)
buffer_busy_Never(channel_set) == FALSE

(* No buffer can be created while "input" is enabled on a pair of the set. *)
buffer_busy(channel_set) == \E c \in channel_set : processed_enabled[c]

(* Slip: the raw request stored before the lock-out is tested, so that a   *)
(* refused write leaves it changed.                                        *)
set_raw_StoresFirst(c, requested) ==
    /\ last' = Call("set_raw", c, requested)
    /\ prev' = Device
    /\ raw_requested' =
         [x \in Channels |->
            IF x \in Affected(c) THEN requested ELSE raw_requested[x]]
    /\ IF raw_busy(c)
       THEN /\ result' = -EBUSY
            /\ UNCHANGED register_value
       ELSE /\ result' = 0
            /\ register_value' =
                 [r \in Regs |->
                    IF PairOf(r) \in Affected(c)
                    THEN StreamHeld(buffer_open[PairOf(r)], RawSel(requested))
                    ELSE register_value[r]]
    /\ UNCHANGED <<buffer_open, processed_enabled, enabled, bval, uval,
                   sample_buff>>

(* iio_channel_attr_write_bool(tx_channels[c].dds1_i, "raw", requested) *)
set_raw(c, requested) ==
    /\ last' = Call("set_raw", c, requested)
    /\ prev' = Device
    /\ IF raw_busy(c)
       THEN /\ result' = -EBUSY
            /\ UNCHANGED <<raw_requested, register_value>>
       ELSE /\ result' = 0
            /\ raw_requested' =
                 [x \in Channels |->
                    IF x \in Affected(c) THEN requested ELSE raw_requested[x]]
            /\ register_value' =
                 [r \in Regs |->
                    IF PairOf(r) \in Affected(c)
                    THEN StreamHeld(buffer_open[PairOf(r)], RawSel(requested))
                    ELSE register_value[r]]
    /\ UNCHANGED <<buffer_open, processed_enabled, enabled, bval, uval,
                   sample_buff>>

(* Slip: the "input" value stored before the lock-out is tested, so that a *)
(* refused write is read back.                                             *)
set_processed_input_StoresFirst(c, enable) ==
    /\ last' = Call("set_processed_input", c, enable)
    /\ prev' = Device
    /\ processed_enabled' =
         [x \in Channels |->
            IF x \in Affected(c) THEN enable ELSE processed_enabled[x]]
    /\ IF input_busy(c, enable)
       THEN /\ result' = -EBUSY
            /\ UNCHANGED register_value
       ELSE /\ result' = 0
            /\ register_value' =
                 [r \in Regs |->
                    IF PairOf(r) \in Affected(c)
                    THEN IF enable
                         THEN DATA_SEL_DMA
                         ELSE IF processed_enabled[PairOf(r)]
                              THEN DisableSel(raw_requested[PairOf(r)])
                              ELSE register_value[r]
                    ELSE register_value[r]]
    /\ UNCHANGED <<raw_requested, buffer_open, enabled, bval, uval,
                   sample_buff>>

(* Slip: "input" = 0 reverts the registers to DDS even when "input" is     *)
(* already clear.                                                          *)
set_processed_input_AlwaysReverts(c, enable) ==
    /\ last' = Call("set_processed_input", c, enable)
    /\ prev' = Device
    /\ IF input_busy(c, enable)
       THEN /\ result' = -EBUSY
            /\ UNCHANGED <<processed_enabled, register_value>>
       ELSE /\ result' = 0
            /\ processed_enabled' =
                 [x \in Channels |->
                    IF x \in Affected(c) THEN enable ELSE processed_enabled[x]]
            /\ register_value' =
                 [r \in Regs |->
                    IF PairOf(r) \in Affected(c)
                    THEN IF enable
                         THEN DATA_SEL_DMA
                         ELSE DisableSel(raw_requested[PairOf(r)])
                    ELSE register_value[r]]
    /\ UNCHANGED <<raw_requested, buffer_open, enabled, bval, uval,
                   sample_buff>>

(* iio_channel_attr_write_bool(tx_channels[c].dac_i, "input", enable).     *)
(* The test clears "input" only while it is enabled; clearing it when it   *)
(* is already clear has nothing to revert and leaves the registers alone.  *)
set_processed_input(c, enable) ==
    /\ last' = Call("set_processed_input", c, enable)
    /\ prev' = Device
    /\ IF input_busy(c, enable)
       THEN /\ result' = -EBUSY
            /\ UNCHANGED <<processed_enabled, register_value>>
       ELSE /\ result' = 0
            /\ processed_enabled' =
                 [x \in Channels |->
                    IF x \in Affected(c) THEN enable ELSE processed_enabled[x]]
            /\ register_value' =
                 [r \in Regs |->
                    IF PairOf(r) \in Affected(c)
                    THEN IF enable
                         THEN DATA_SEL_DMA
                         ELSE IF processed_enabled[PairOf(r)]
                              THEN DisableSel(raw_requested[PairOf(r)])
                              ELSE register_value[r]
                    ELSE register_value[r]]
    /\ UNCHANGED <<raw_requested, buffer_open, enabled, bval, uval,
                   sample_buff>>

(* iio_channel_attr_read_bool(tx_channels[c].dac_i, "input", &bval) *)
read_input(c) ==
    /\ last' = Call("read_input", c, FALSE)
    /\ prev' = Device
    /\ result' = 0
    /\ bval' = processed_enabled[c]
    /\ UNCHANGED <<devvars, enabled, uval, sample_buff>>

(* uval = get_dac_reg(ch, DAC_CH_CTRL_OFFSET) *)
get_dac_reg(ch) ==
    /\ last' = Call("read_register", ch, FALSE)
    /\ prev' = Device
    /\ uval' = register_value[ch]
    /\ UNCHANGED <<devvars, enabled, result, bval, sample_buff>>

(* The values an unwritten reg_val may hold: a sample of uint32_t that     *)
(* holds the three selections and one value that is none of them.          *)
Unwritten == 0 .. 3

(* uval = get_dac_reg(ch, DAC_CH_CTRL_OFFSET) when iio_device_reg_read     *)
(* fails: its return code is dropped, reg_val is never written and its     *)
(* indeterminate content v is returned as the register.                    *)
get_dac_reg_unread(ch, v) ==
    /\ last' = Call("read_register", ch, FALSE)
    /\ prev' = Device
    /\ uval' = v
    /\ UNCHANGED <<devvars, enabled, result, bval, sample_buff>>

(* iio_channel_enable(tx_channels[c].dac_i); ...(tx_channels[c].dac_q) *)
iio_channel_enable(c) ==
    /\ last' = Call("enable", c, FALSE)
    /\ prev' = Device
    /\ enabled' = enabled \cup {c}
    /\ UNCHANGED <<devvars, obsvars>>

(* Slip of the create path: a pair whose raw request is 1 keeps its DDS    *)
(* selection under the new buffer.                                         *)
open_stream_buffer_DdsWins(channel_set) ==
    /\ last' = Call("open_stream_buffer", 0, FALSE)
    /\ prev' = Device
    /\ IF buffer_busy(channel_set)
       THEN /\ sample_buff' = FALSE
            /\ UNCHANGED <<buffer_open, register_value>>
       ELSE /\ sample_buff' = TRUE
            /\ buffer_open' =
                 [x \in Channels |-> x \in channel_set \/ buffer_open[x]]
            /\ register_value' =
                 [r \in Regs |->
                    IF PairOf(r) \in channel_set /\ ~raw_requested[PairOf(r)]
                    THEN DATA_SEL_DMA ELSE register_value[r]]
    /\ UNCHANGED <<raw_requested, processed_enabled, enabled, result, bval,
                   uval>>

(* Slip of the create path: only the I word of each pair is switched to    *)
(* DMA.                                                                    *)
open_stream_buffer_IOnly(channel_set) ==
    /\ last' = Call("open_stream_buffer", 0, FALSE)
    /\ prev' = Device
    /\ IF buffer_busy(channel_set)
       THEN /\ sample_buff' = FALSE
            /\ UNCHANGED <<buffer_open, register_value>>
       ELSE /\ sample_buff' = TRUE
            /\ buffer_open' =
                 [x \in Channels |-> x \in channel_set \/ buffer_open[x]]
            /\ register_value' =
                 [r \in Regs |->
                    IF PairOf(r) \in channel_set /\ r = 2 * PairOf(r)
                    THEN DATA_SEL_DMA ELSE register_value[r]]
    /\ UNCHANGED <<raw_requested, processed_enabled, enabled, result, bval,
                   uval>>

(* sample_buff = iio_device_create_buffer(ad9081_tx, ..., false), over the *)
(* enabled pairs channel_set.                                              *)
open_stream_buffer(channel_set) ==
    /\ last' = Call("open_stream_buffer", 0, FALSE)
    /\ prev' = Device
    /\ IF buffer_busy(channel_set)
       THEN /\ sample_buff' = FALSE
            /\ UNCHANGED <<buffer_open, register_value>>
       ELSE /\ sample_buff' = TRUE
            /\ buffer_open' =
                 [x \in Channels |-> x \in channel_set \/ buffer_open[x]]
            /\ register_value' =
                 [r \in Regs |->
                    IF PairOf(r) \in channel_set
                    THEN DATA_SEL_DMA ELSE register_value[r]]
    /\ UNCHANGED <<raw_requested, processed_enabled, enabled, result, bval,
                   uval>>

(* Slip of the destroy path: the raw request put back to its default, 1,   *)
(* along with the DDS selection.                                           *)
close_stream_buffer_RestoresRaw(channel_set) ==
    /\ last' = Call("close_stream_buffer", 0, FALSE)
    /\ prev' = Device
    /\ buffer_open' =
         [x \in Channels |-> buffer_open[x] /\ x \notin channel_set]
    /\ raw_requested' =
         [x \in Channels |-> x \in channel_set \/ raw_requested[x]]
    /\ register_value' =
         [r \in Regs |->
            IF PairOf(r) \in channel_set
            THEN DATA_SEL_DDS ELSE register_value[r]]
    /\ UNCHANGED <<processed_enabled, enabled, obsvars>>

(* iio_buffer_destroy(sample_buff); the pointer variable is left as it is. *)
close_stream_buffer(channel_set) ==
    /\ last' = Call("close_stream_buffer", 0, FALSE)
    /\ prev' = Device
    /\ buffer_open' =
         [x \in Channels |-> buffer_open[x] /\ x \notin channel_set]
    /\ register_value' =
         [r \in Regs |->
            IF PairOf(r) \in channel_set
            THEN CloseSel(raw_requested[PairOf(r)]) ELSE register_value[r]]
    /\ UNCHANGED <<raw_requested, processed_enabled, enabled, obsvars>>

(***************************************************************************)
(* Any caller: the operations in any order.  A buffer is created over all  *)
(* pairs, once all are enabled and no buffer is open, and destroyed only   *)
(* while it is open, as every caller in the sources does.                  *)
(***************************************************************************)
InitDevice ==
    /\ \E raw \in BOOLEAN :
         /\ raw_requested = [c \in Channels |-> raw]
         /\ register_value = [r \in Regs |-> RawSel(raw)]
    /\ buffer_open = [c \in Channels |-> FALSE]
    /\ processed_enabled = [c \in Channels |-> FALSE]
    /\ enabled = {}
    /\ result = 0
    /\ bval = FALSE
    /\ uval = 0
    /\ sample_buff = FALSE
    /\ last = Call("none", 0, FALSE)
    /\ prev = Device

(* The four DDS channels of one output: tone 1 and tone 2, I and Q. *)
DdsChannels == {"tone1_i", "tone1_q", "tone2_i", "tone2_q"}

(* The attributes of a DDS channel: frequency in Hz, scale in thousandths, *)
(* phase in millidegrees, and whether "raw" = 1 was written to it.         *)
Attrs(f, s, p, r) == [frequency |-> f, scale |-> s, phase |-> p, raw |-> r]

(* dds_default_config_t: { .enabled = false } *)
NoTone == [enabled |-> FALSE, freq_hz |-> 0, phase_deg |-> 0, scale_dbfs |-> 0]

(* The statics and locals of the HMC7044 example and the ramp generators   *)
(* of the multi-channel example before either program has touched them.    *)
InitExampleVars ==
    /\ frequency = 0
    /\ dummy_buff = 0
    /\ dummy_double = 0
    /\ dummy_int = 0
    /\ ramp_i = [c \in Channels |-> 0]
    /\ ramp_q = [c \in Channels |-> 0]
    /\ frame = <<>>
    /\ tone_config = NoTone
    /\ dds = [t \in DdsChannels |-> Attrs(0, 0, 0, FALSE)]

InitTxVars ==
    /\ stop_loop = FALSE
    /\ written = FALSE
    /\ pushed = 0
    /\ prog = "none"
    /\ InitExampleVars

Init ==
    /\ InitDevice
    /\ pc = 0
    /\ i = 0
    /\ ret = "indeterminate"
    /\ ctx = TRUE
    /\ failure_line = 0
    /\ InitTxVars

WriteRaw == \E c \in Channels, v \in BOOLEAN :
    set_raw(c, v) /\ UNCHANGED progvars

WriteInput == \E c \in Channels, v \in BOOLEAN :
    set_processed_input(c, v) /\ UNCHANGED progvars

ReadInput == \E c \in Channels :
    read_input(c) /\ UNCHANGED progvars

ReadRegister == \E r \in Regs :
    get_dac_reg(r) /\ UNCHANGED progvars

EnableChannel == \E c \in Channels :
    iio_channel_enable(c) /\ UNCHANGED progvars

CreateBuffer ==
    /\ enabled = Channels
    /\ \A c \in Channels : ~buffer_open[c]
    /\ open_stream_buffer(enabled)
    /\ UNCHANGED progvars

DestroyBuffer ==
    /\ sample_buff
    /\ \E c \in Channels : buffer_open[c]
    /\ close_stream_buffer({c \in Channels : buffer_open[c]})
    /\ UNCHANGED progvars

Next ==
    \/ WriteRaw
    \/ WriteInput
    \/ ReadInput
    \/ ReadRegister
    \/ EnableChannel
    \/ CreateBuffer
    \/ DestroyBuffer

Spec == Init /\ [][Next]_vars

(***************************************************************************)
(* Any caller, with a register read that can fail.                         *)
(***************************************************************************)
ReadRegisterUnread == \E r \in Regs, v \in Unwritten :
    get_dac_reg_unread(r, v) /\ UNCHANGED progvars

NextIo ==
    \/ Next
    \/ ReadRegisterUnread

SpecIo == Init /\ [][NextIo]_vars

TypeOK ==
    /\ raw_requested \in [Channels -> BOOLEAN]
    /\ buffer_open \in [Channels -> BOOLEAN]
    /\ processed_enabled \in [Channels -> BOOLEAN]
    /\ register_value \in [Regs -> Sels]
    /\ enabled \subseteq Channels
    /\ result \in {0, -EBUSY}
    /\ bval \in BOOLEAN
    /\ uval \in Sels
    /\ sample_buff \in BOOLEAN

(***************************************************************************)
(* The patch test: main of ad9081_processed_test.c.  pc is the source line *)
(* of the statement about to run.                                          *)
(***************************************************************************)
S(op, val, res, b, reg, line) ==
    [op |-> op, val |-> val, res |-> res, b |-> b, reg |-> reg, line |-> line]

(* The statements of main between load_channels and the clean label, each  *)
(* with the values its TEST_ASSERTs compare against: val is the value      *)
(* written, res the expected return code, b the expected bval (or, for a   *)
(* buffer creation, whether a handle is expected), reg the expected        *)
(* register value.                                                         *)
Script ==
    <<
       S("read_input", FALSE, 0, FALSE, 0, 182),
       S("write_raw", FALSE, 0, FALSE, 0, 194),
       S("read_input", FALSE, 0, FALSE, 0, 196),
       S("check_regs", FALSE, 0, FALSE, DATA_SEL_ZERO, 199),
       S("enable", FALSE, 0, FALSE, 0, 205),
       S("create", FALSE, 0, TRUE, 0, 209),
       S("write_input", TRUE, -EBUSY, FALSE, 0, 213),
       S("read_input", FALSE, 0, FALSE, 0, 215),
       S("check_regs", FALSE, 0, FALSE, DATA_SEL_DMA, 220),
       S("destroy", FALSE, 0, FALSE, 0, 226),
       S("check_regs", FALSE, 0, FALSE, DATA_SEL_DDS, 228),
       S("write_raw", FALSE, 0, FALSE, 0, 240),
       S("read_input", FALSE, 0, FALSE, 0, 242),
       S("check_regs", FALSE, 0, FALSE, DATA_SEL_ZERO, 245),
       S("write_input", TRUE, 0, FALSE, 0, 251),
       S("read_input", FALSE, 0, TRUE, 0, 253),
       S("check_regs", FALSE, 0, FALSE, DATA_SEL_DMA, 258),
       S("write_raw", FALSE, -EBUSY, FALSE, 0, 264),
       S("write_raw", TRUE, -EBUSY, FALSE, 0, 266),
       S("create", FALSE, 0, FALSE, 0, 270),
       S("write_input", FALSE, 0, FALSE, 0, 274),
       S("read_input", FALSE, 0, FALSE, 0, 276),
       S("check_regs", FALSE, 0, FALSE, DATA_SEL_DDS, 281),
       S("enable", FALSE, 0, FALSE, 0, 292),
       S("create", FALSE, 0, TRUE, 0, 296),
       S("write_input", TRUE, -EBUSY, FALSE, 0, 300),
       S("read_input", FALSE, 0, FALSE, 0, 302),
       S("check_regs", FALSE, 0, FALSE, DATA_SEL_DMA, 307),
       S("destroy", FALSE, 0, FALSE, 0, 313),
       S("check_regs", FALSE, 0, FALSE, DATA_SEL_DDS, 315),
       S("write_raw", TRUE, 0, FALSE, 0, 328),
       S("read_input", FALSE, 0, FALSE, 0, 330),
       S("check_regs", FALSE, 0, FALSE, DATA_SEL_DDS, 333),
       S("write_input", TRUE, 0, FALSE, 0, 339),
       S("read_input", FALSE, 0, TRUE, 0, 341),
       S("check_regs", FALSE, 0, FALSE, DATA_SEL_DMA, 346),
       S("write_raw", FALSE, -EBUSY, FALSE, 0, 352),
       S("write_raw", TRUE, -EBUSY, FALSE, 0, 354),
       S("create", FALSE, 0, FALSE, 0, 359),
       S("write_input", FALSE, 0, FALSE, 0, 363),
       S("read_input", FALSE, 0, FALSE, 0, 365),
       S("check_regs", FALSE, 0, FALSE, DATA_SEL_DDS, 368),
       S("completed", FALSE, 0, FALSE, 0, 373)
    >>

L_create_context == 153
L_find_devices == 161
L_load_channels == 171
L_clean == 375
L_return == 379
L_exited == 380

IndexOf(line) == CHOOSE k \in 1 .. Len(Script) : Script[k].line = line
AtScript == pc \in {Script[k].line : k \in 1 .. Len(Script)}
Stmt == Script[IndexOf(pc)]
Loops == {"check_regs", "enable"}

(* Fall through to the statement after the current one; a for loop starts  *)
(* with i = 0.                                                             *)
Advance ==
    /\ pc' = Script[IndexOf(pc) + 1].line
    /\ i' = IF Script[IndexOf(pc) + 1].op \in Loops THEN 0 ELSE i

(* TEST_ASSERT(cond) at source line `line`: on failure error() prints the  *)
(* line and control jumps to clean; ret is not set.                        *)
TEST_ASSERT(cond, line) ==
    IF cond
    THEN Advance /\ failure_line' = failure_line
    ELSE pc' = L_clean /\ i' = i /\ failure_line' = line

InitTest ==
    /\ InitDevice
    /\ pc = L_create_context
    /\ i = 0
    /\ ret = "indeterminate"
    /\ ctx = FALSE
    /\ failure_line = 0
    /\ InitTxVars

(* ctx = iio_create_default_context(); *)
CreateContext ==
    /\ pc = L_create_context
    /\ \/ ctx' = TRUE /\ pc' = L_find_devices /\ ret' = ret
       \/ ctx' = FALSE /\ pc' = L_clean /\ ret' = "EXIT_FAILURE"
    /\ UNCHANGED <<devvars, enabled, obsvars, last, prev, i, failure_line>>
    /\ UNCHANGED txvars

(* iio_context_find_device for both devices *)
FindDevices ==
    /\ pc = L_find_devices
    /\ \/ pc' = L_load_channels /\ ret' = ret
       \/ pc' = L_clean /\ ret' = "EXIT_FAILURE"
    /\ UNCHANGED <<devvars, enabled, obsvars, last, prev, i, ctx, failure_line>>
    /\ UNCHANGED txvars

(* result = load_channels(); *)
LoadChannels ==
    /\ pc = L_load_channels
    /\ \/ pc' = Script[1].line /\ ret' = ret
       \/ pc' = L_clean /\ ret' = "EXIT_FAILURE"
    /\ UNCHANGED <<devvars, enabled, obsvars, last, prev, i, ctx, failure_line>>
    /\ UNCHANGED txvars

StepReadInput ==
    /\ AtScript /\ Stmt.op = "read_input"
    /\ read_input(0)
    /\ IF result' = 0
       THEN TEST_ASSERT(bval' = Stmt.b, pc + 2)
       ELSE TEST_ASSERT(FALSE, pc + 1)
    /\ UNCHANGED <<ret, ctx>>
    /\ UNCHANGED txvars

StepWriteRaw ==
    /\ AtScript /\ Stmt.op = "write_raw"
    /\ set_raw(0, Stmt.val)
    /\ TEST_ASSERT(result' = Stmt.res, pc + 1)
    /\ UNCHANGED <<ret, ctx>>
    /\ UNCHANGED txvars

StepWriteInput ==
    /\ AtScript /\ Stmt.op = "write_input"
    /\ set_processed_input(0, Stmt.val)
    /\ TEST_ASSERT(result' = Stmt.res, pc + 1)
    /\ UNCHANGED <<ret, ctx>>
    /\ UNCHANGED txvars

(* for( i = 0; i < NUM_TX_CH * 2; i++ ) { uval = get_dac_reg(i, ...);      *)
(*     TEST_ASSERT(uval == reg); }                                         *)
StepCheckRegs ==
    /\ AtScript /\ Stmt.op = "check_regs"
    /\ IF i < NUM_TX_CH * 2
       THEN /\ get_dac_reg(i)
            /\ IF uval' = Stmt.reg
               THEN pc' = pc /\ i' = i + 1 /\ failure_line' = failure_line
               ELSE pc' = L_clean /\ i' = i /\ failure_line' = pc + 2
       ELSE /\ Advance
            /\ failure_line' = failure_line
            /\ UNCHANGED <<devvars, enabled, obsvars, last, prev>>
    /\ UNCHANGED <<ret, ctx>>
    /\ UNCHANGED txvars

(* for( i = 0; i < NUM_TX_CH; i++) { iio_channel_enable(dac_i); (dac_q); } *)
StepEnable ==
    /\ AtScript /\ Stmt.op = "enable"
    /\ IF i < NUM_TX_CH
       THEN /\ iio_channel_enable(i)
            /\ pc' = pc /\ i' = i + 1
       ELSE /\ Advance
            /\ UNCHANGED <<devvars, enabled, obsvars, last, prev>>
    /\ UNCHANGED <<ret, ctx, failure_line>>
    /\ UNCHANGED txvars

(* sample_buff = iio_device_create_buffer(...);                            *)
(* TEST_ASSERT(sample_buff != NULL) or TEST_ASSERT(sample_buff == NULL)    *)
StepCreate ==
    /\ AtScript /\ Stmt.op = "create"
    /\ open_stream_buffer(enabled)
    /\ TEST_ASSERT(sample_buff' = Stmt.b, pc + 1)
    /\ UNCHANGED <<ret, ctx>>
    /\ UNCHANGED txvars

(* iio_buffer_destroy(sample_buff); usleep(500000); *)
StepDestroy ==
    /\ AtScript /\ Stmt.op = "destroy"
    /\ close_stream_buffer(enabled)
    /\ Advance
    /\ UNCHANGED <<ret, ctx, failure_line>>
    /\ UNCHANGED txvars

(* printf("Test Completed Successfully!\n"); falls into clean *)
Completed ==
    /\ AtScript /\ Stmt.op = "completed"
    /\ pc' = L_clean
    /\ UNCHANGED <<devvars, enabled, obsvars, last, prev, i, ret, ctx,
                   failure_line>>
    /\ UNCHANGED txvars

(* clean: if(ctx) iio_context_destroy(ctx); *)
Clean ==
    /\ pc = L_clean
    /\ ctx' = FALSE
    /\ pc' = L_return
    /\ UNCHANGED <<devvars, enabled, obsvars, last, prev, i, ret, failure_line>>
    /\ UNCHANGED txvars

(* return ret; an unassigned ret yields any status *)
Return ==
    /\ pc = L_return
    /\ pc' = L_exited
    /\ ret' \in (IF ret = "indeterminate"
                 THEN {"EXIT_SUCCESS", "EXIT_FAILURE"} ELSE {ret})
    /\ UNCHANGED <<devvars, enabled, obsvars, last, prev, i, ctx, failure_line>>
    /\ UNCHANGED txvars

NextTest ==
    \/ CreateContext
    \/ FindDevices
    \/ LoadChannels
    \/ StepReadInput
    \/ StepWriteRaw
    \/ StepWriteInput
    \/ StepCheckRegs
    \/ StepEnable
    \/ StepCreate
    \/ StepDestroy
    \/ Completed
    \/ Clean
    \/ Return

SpecTest == InitTest /\ [][NextTest]_vars

(***************************************************************************)
(* The patch test with a register read that can fail.                      *)
(***************************************************************************)
(* One pass of a register check loop in which iio_device_reg_read fails:   *)
(* get_dac_reg returns the unwritten reg_val and TEST_ASSERT compares it   *)
(* with the expected selection.                                            *)
StepCheckRegsUnread ==
    /\ AtScript /\ Stmt.op = "check_regs"
    /\ i < NUM_TX_CH * 2
    /\ \E v \in Unwritten : get_dac_reg_unread(i, v)
    /\ IF uval' = Stmt.reg
       THEN pc' = pc /\ i' = i + 1 /\ failure_line' = failure_line
       ELSE pc' = L_clean /\ i' = i /\ failure_line' = pc + 2
    /\ UNCHANGED <<ret, ctx>>
    /\ UNCHANGED txvars

NextTestIo ==
    \/ NextTest
    \/ StepCheckRegsUnread

SpecTestIo == InitTest /\ [][NextTestIo]_vars

(***************************************************************************)
(* The transmit examples: main of ad9081_multich_tx.c and main of          *)
(* ad9081_data_tx.c.  pc is the source line of the statement about to run  *)
(* in the program prog.                                                    *)
(***************************************************************************)
MaxPush == 2

M(op, line) == [op |-> op, line |-> line]

(* Slip: the pairs enabled before the raw write is made. *)
multich_tx_main_EnableFirst ==
    << M("signal", 152), M("create_context", 154), M("lookup", 162),
       M("load_channels", 171), M("inspect", 184), M("enable", 202),
       M("inspect", 209), M("write_raw", 214), M("inspect", 221),
       M("create", 228), M("inspect", 235), M("while", 238),
       M("fill", 241), M("push", 250), M("completed", 256),
       M("clean_buffer", 258), M("clean_context", 269), M("return", 272) >>

multich_tx_main ==
    << M("signal", 152), M("create_context", 154), M("lookup", 162),
       M("load_channels", 171), M("inspect", 184), M("write_raw", 202),
       M("inspect", 209), M("enable", 214), M("inspect", 221),
       M("create", 228), M("inspect", 235), M("while", 238),
       M("fill", 241), M("push", 250), M("completed", 256),
       M("clean_buffer", 258), M("clean_context", 269), M("return", 272) >>

data_tx_main ==
    << M("signal", 64), M("create_context", 66), M("lookup", 74),
       M("lookup", 83), M("lookup", 95), M("write_raw", 101),
       M("enable", 108), M("create", 112), M("fill", 119),
       M("push", 137), M("while", 143), M("usleep", 144),
       M("completed", 146), M("clean_buffer", 148),
       M("clean_context", 152), M("return", 155) >>

Programs == {"multich_tx", "data_tx"}

(* Statements of load_dds_tone of ad9081_fullsetup.c. *)
load_dds_tone_body ==
    << M("scale2_i", 266), M("scale2_q", 269), M("if_enabled", 274),
       M("frequency_i", 275), M("frequency_q", 279),
       M("scale1_i", 283), M("scale1_q", 287),
       M("phase_i", 293), M("phase_q", 299),
       M("raw_i", 305), M("raw_q", 308),
       M("zero1_i", 313), M("zero1_q", 316), M("return", 320) >>

(* Statements of main of hmc7044_attr_example.c. *)
hmc7044_main ==
    << M("create_context", 46), M("find_device", 53),
       M("find_channel", 61), M("find_channel", 69),
       M("read_all", 80), M("write_double", 87), M("read_double", 88),
       M("write_longlong", 93), M("read_longlong", 94),
       M("write_string", 99), M("read_longlong", 100),
       M("bad_call", 104), M("bad_call", 108),
       M("clean_context", 112), M("return", 113) >>

Main ==
    CASE prog = "data_tx" -> data_tx_main
      [] prog = "hmc7044" -> hmc7044_main
      [] prog = "fullsetup" -> load_dds_tone_body
      [] OTHER -> multich_tx_main

(* The pairs whose dac_i and dac_q the program enables, in order. *)
EnableList ==
    IF prog = "data_tx" THEN << 1 >> ELSE [k \in 1 .. NUM_TX_CH |-> k - 1]

TxAt == pc \in {Main[k].line : k \in 1 .. Len(Main)}
TxIndex == CHOOSE k \in 1 .. Len(Main) : Main[k].line = pc
TxStmt == Main[TxIndex]
TxLineOf(op) == Main[CHOOSE k \in 1 .. Len(Main) : Main[k].op = op].line
TxExited == Main[Len(Main)].line + 1
TxIs(op) == prog \in Programs /\ TxAt /\ TxStmt.op = op

(* Control passes to the next statement. *)
TxNextLine == pc' = Main[TxIndex + 1].line

(* ret = EXIT_FAILURE; goto clean; *)
TxFail == ret' = "EXIT_FAILURE" /\ pc' = TxLineOf("clean_buffer")

InitTx ==
    /\ prog \in Programs
    /\ \E raw \in BOOLEAN, proc \in BOOLEAN :
         /\ raw_requested = [c \in Channels |-> raw]
         /\ processed_enabled = [c \in Channels |-> proc]
         /\ register_value =
              [r \in Regs |-> IF proc THEN DATA_SEL_DMA ELSE RawSel(raw)]
    /\ buffer_open = [c \in Channels |-> FALSE]
    /\ enabled = {}
    /\ result = 0
    /\ bval = FALSE
    /\ uval = 0
    /\ sample_buff = FALSE
    /\ last = Call("none", 0, FALSE)
    /\ prev = Device
    /\ pc = Main[1].line
    /\ i = 0
    /\ ret = "indeterminate"
    /\ ctx = FALSE
    /\ failure_line = 0
    /\ stop_loop = FALSE
    /\ written = FALSE
    /\ pushed = 0
    /\ InitExampleVars

(* static void handle_sig(int sig) { stop_loop = true; }, run at any point *)
(* once signal(SIGINT, handle_sig) has returned and before main returns.   *)
handle_sig ==
    /\ prog \in Programs
    /\ TxAt /\ TxStmt.op # "signal"
    /\ ~stop_loop
    /\ stop_loop' = TRUE
    /\ UNCHANGED <<devvars, enabled, obsvars, last, prev, pc, i, ret, ctx,
                   failure_line, written, pushed, prog, hmcvars, rampvars, ddsvars>>

(* signal(SIGINT, handle_sig); *)
TxSignal ==
    /\ TxIs("signal")
    /\ TxNextLine
    /\ UNCHANGED <<devvars, enabled, obsvars, last, prev, i, ret, ctx,
                   failure_line, txvars>>

(* ctx = iio_create_default_context(); if (!ctx) { ...; goto clean; } *)
TxCreateContext ==
    /\ TxIs("create_context")
    /\ \/ ctx' = TRUE /\ TxNextLine /\ ret' = ret
       \/ ctx' = FALSE /\ TxFail
    /\ UNCHANGED <<devvars, enabled, obsvars, last, prev, i, failure_line,
                   txvars>>

(* The device and channel look-ups, and data_tx's NCO frequency write:     *)
(* each goes on, or sets ret and jumps to clean.                           *)
TxLookup ==
    /\ TxIs("lookup")
    /\ \/ TxNextLine /\ ret' = ret
       \/ TxFail
    /\ UNCHANGED <<devvars, enabled, obsvars, last, prev, i, ctx,
                   failure_line, txvars>>

(* uint16_t ramp_i, ramp_q: the width of the ramp values. *)
Word == 2 ^ 16

(* tx_channels[i].ramp_q = 0x8000; *)
RAMP_Q_START == 32768

(* Slip: every pair given the ramp rate of pair 0. *)
ramp_inc_SameRate(c) == 1

(* tx_channels[i].ramp_inc = 1 << i, stored in a uint16_t. *)
ramp_inc(c) == (2 ^ c) % Word

(* result = load_channels(): the channels are looked up and the ramps set  *)
(* to their start values, whether or not a look-up failed; on a negative   *)
(* result main jumps to clean.                                             *)
TxLoadChannels ==
    /\ TxIs("load_channels")
    /\ ramp_i' = [c \in Channels |-> 0]
    /\ ramp_q' = [c \in Channels |-> RAMP_Q_START]
    /\ \/ TxNextLine /\ ret' = ret
       \/ TxFail
    /\ UNCHANGED <<devvars, enabled, obsvars, last, prev, i, ctx,
                   failure_line, stop_loop, written, pushed, prog, hmcvars,
                   frame, ddsvars>>

(* inspect_dac_regs(): the control words are read and printed. *)
TxInspect ==
    /\ TxIs("inspect")
    /\ TxNextLine
    /\ UNCHANGED <<devvars, enabled, obsvars, last, prev, i, ret, ctx,
                   failure_line, txvars>>

(* if(iio_channel_attr_write_bool(dac1_dds_ctrl, "raw", false) < 0) {      *)
(*     ret = EXIT_FAILURE; goto clean; }                                   *)
TxWriteRaw ==
    /\ TxIs("write_raw")
    /\ set_raw(0, FALSE)
    /\ IF result' < 0
       THEN TxFail
       ELSE TxNextLine /\ ret' = ret
    /\ UNCHANGED <<i, ctx, failure_line, txvars>>

(* iio_channel_enable(dac_i); iio_channel_enable(dac_q); for each pair the *)
(* program transmits on.                                                   *)
TxEnable ==
    /\ TxIs("enable")
    /\ IF i < Len(EnableList)
       THEN /\ iio_channel_enable(EnableList[i + 1])
            /\ pc' = pc /\ i' = i + 1
       ELSE /\ TxNextLine /\ i' = 0
            /\ UNCHANGED <<devvars, enabled, obsvars, last, prev>>
    /\ UNCHANGED <<ret, ctx, failure_line, txvars>>

(* iio_device_create_buffer returning NULL for a reason of its own (no     *)
(* memory, no device): nothing is opened.                                  *)
create_buffer_error ==
    /\ last' = Call("open_stream_buffer", 0, FALSE)
    /\ prev' = Device
    /\ sample_buff' = FALSE
    /\ UNCHANGED <<devvars, enabled, result, bval, uval>>

(* if((sample_buff = iio_device_create_buffer(...)) == NULL) {             *)
(*     ret = EXIT_FAILURE; goto clean; }                                   *)
TxCreateBuffer ==
    /\ TxIs("create")
    /\ \/ open_stream_buffer(enabled)
       \/ create_buffer_error
    /\ IF sample_buff'
       THEN TxNextLine /\ ret' = ret
       ELSE TxFail
    /\ UNCHANGED <<i, ctx, failure_line, txvars>>

(* The samples of one buffer are written between iio_buffer_start (or      *)
(* iio_buffer_first) and iio_buffer_end.  A buffer of the multi-channel    *)
(* example holds a multiple of 2^16 frames, so a whole pass brings every   *)
(* ramp back to the value it started the pass with.                        *)
TxFill ==
    /\ TxIs("fill")
    /\ written' = TRUE
    /\ TxNextLine
    /\ UNCHANGED <<devvars, enabled, obsvars, last, prev, i, ret, ctx,
                   failure_line, stop_loop, pushed, prog, hmcvars, rampvars, ddsvars>>

(* if((result = iio_buffer_push(sample_buff)) < 0) { ret = EXIT_FAILURE;   *)
(*     goto clean; }; otherwise on to the loop test.                       *)
TxPush ==
    /\ TxIs("push")
    /\ \/ /\ result' = 0
          /\ pushed' = IF pushed < MaxPush THEN pushed + 1 ELSE pushed
          /\ pc' = TxLineOf("while")
          /\ ret' = ret
       \/ /\ result' = -1
          /\ pushed' = pushed
          /\ TxFail
    /\ UNCHANGED <<devvars, enabled, bval, uval, sample_buff, last, prev, i,
                   ctx, failure_line, stop_loop, written, prog, hmcvars,
                   rampvars, ddsvars>>

(* Slip: the loop test never sees stop_loop set. *)
TxWhile_NeverStops ==
    /\ TxIs("while")
    /\ TxNextLine
    /\ UNCHANGED <<devvars, enabled, obsvars, last, prev, i, ret, ctx,
                   failure_line, txvars>>

(* while( stop_loop == false ) *)
TxWhile ==
    /\ TxIs("while")
    /\ IF stop_loop
       THEN pc' = TxLineOf("completed")
       ELSE TxNextLine
    /\ UNCHANGED <<devvars, enabled, obsvars, last, prev, i, ret, ctx,
                   failure_line, txvars>>

(* usleep(500000); back to the loop test. *)
TxUsleep ==
    /\ TxIs("usleep")
    /\ pc' = TxLineOf("while")
    /\ UNCHANGED <<devvars, enabled, obsvars, last, prev, i, ret, ctx,
                   failure_line, txvars>>

(* info("Completed sampling\n"); falls into clean *)
TxCompleted ==
    /\ TxIs("completed")
    /\ TxNextLine
    /\ UNCHANGED <<devvars, enabled, obsvars, last, prev, i, ret, ctx,
                   failure_line, txvars>>

(* clean: if(sample_buff) { iio_buffer_destroy(sample_buff); ... } *)
TxCleanBuffer ==
    /\ TxIs("clean_buffer")
    /\ IF sample_buff
       THEN close_stream_buffer({c \in Channels : buffer_open[c]})
       ELSE UNCHANGED <<devvars, enabled, obsvars, last, prev>>
    /\ TxNextLine
    /\ UNCHANGED <<i, ret, ctx, failure_line, txvars>>

(* if(ctx) { iio_context_destroy(ctx); } *)
TxCleanContext ==
    /\ TxIs("clean_context")
    /\ ctx' = FALSE
    /\ TxNextLine
    /\ UNCHANGED <<devvars, enabled, obsvars, last, prev, i, ret,
                   failure_line, txvars>>

(* return ret; an unassigned ret yields any status *)
TxReturn ==
    /\ TxIs("return")
    /\ pc' = TxExited
    /\ ret' \in (IF ret = "indeterminate"
                 THEN {"EXIT_SUCCESS", "EXIT_FAILURE"} ELSE {ret})
    /\ UNCHANGED <<devvars, enabled, obsvars, last, prev, i, ctx,
                   failure_line, txvars>>

(* The steps of main. *)
TxMain ==
    \/ TxSignal
    \/ TxCreateContext
    \/ TxLookup
    \/ TxLoadChannels
    \/ TxInspect
    \/ TxWriteRaw
    \/ TxEnable
    \/ TxCreateBuffer
    \/ TxFill
    \/ TxPush
    \/ TxWhile
    \/ TxUsleep
    \/ TxCompleted
    \/ TxCleanBuffer
    \/ TxCleanContext
    \/ TxReturn

NextTx ==
    \/ TxMain
    \/ handle_sig

(* main keeps running: every call it makes returns. *)
SpecTx == InitTx /\ [][NextTx]_vars /\ WF_vars(TxMain)

(***************************************************************************)
(* The attribute example: main of hmc7044_attr_example.c.  The clock chip  *)
(* is seen through one attribute, the "frequency" of the channel coretx.   *)
(* The example checks no return code after its look-ups; the reads are     *)
(* taken to succeed, each write is accepted or refused by the driver.      *)
(***************************************************************************)
MaxFreq == 3
MaxErrno == 2

(* Frequencies the channel may hold when the example starts. *)
Freqs == {4 * k : k \in 0 .. MaxFreq}

HmcIs(op) == prog = "hmc7044" /\ TxAt /\ TxStmt.op = op

InitHmc ==
    /\ InitDevice
    /\ prog = "hmc7044"
    /\ pc = Main[1].line
    /\ i = 0
    /\ ret = "indeterminate"
    /\ ctx = FALSE
    /\ failure_line = 0
    /\ stop_loop = FALSE
    /\ written = FALSE
    /\ pushed = 0
    /\ frequency \in Freqs
    /\ dummy_buff = 0
    /\ dummy_double = 0
    /\ dummy_int = 0
    /\ ramp_i = [c \in Channels |-> 0]
    /\ ramp_q = [c \in Channels |-> 0]
    /\ frame = <<>>
    /\ tone_config = NoTone
    /\ dds = [t \in DdsChannels |-> Attrs(0, 0, 0, FALSE)]

(* return EXIT_FAILURE; the goto clean after it is never reached. *)
HmcReturnFailure == ret' = "EXIT_FAILURE" /\ pc' = TxExited

(* ctx = iio_create_default_context(); if (!ctx) { return EXIT_FAILURE; } *)
HmcCreateContext ==
    /\ HmcIs("create_context")
    /\ \/ ctx' = TRUE /\ TxNextLine /\ ret' = ret
       \/ ctx' = FALSE /\ HmcReturnFailure
    /\ UNCHANGED <<devvars, enabled, obsvars, last, prev, i, failure_line,
                   txvars>>

(* hmc7044 = iio_context_find_device(ctx, "hmc7044");                      *)
(* if (!hmc7044) { error(...); return EXIT_FAILURE; goto clean; }          *)
HmcFindDevice ==
    /\ HmcIs("find_device")
    /\ \/ TxNextLine /\ ret' = ret
       \/ HmcReturnFailure
    /\ UNCHANGED <<devvars, enabled, obsvars, last, prev, i, ctx,
                   failure_line, txvars>>

(* coretx, refclk2 = iio_device_find_channel(...);                         *)
(* if (!ch) { error(...); return EXIT_FAILURE; goto clean; }               *)
HmcFindChannel ==
    /\ HmcIs("find_channel")
    /\ \/ TxNextLine /\ ret' = ret
       \/ HmcReturnFailure
    /\ UNCHANGED <<devvars, enabled, obsvars, last, prev, i, ctx,
                   failure_line, txvars>>

(* iio_channel_attr_read, _read_double, _read_longlong of "frequency". *)
HmcReadAll ==
    /\ HmcIs("read_all")
    /\ dummy_buff' = frequency
    /\ dummy_double' = frequency
    /\ dummy_int' = frequency
    /\ TxNextLine
    /\ UNCHANGED <<devvars, enabled, obsvars, last, prev, i, ret, ctx,
                   failure_line, stop_loop, written, pushed, prog,
                   frequency, rampvars, ddsvars>>

(* A write of "frequency": the driver takes the value or refuses it; the   *)
(* return code is not looked at.                                           *)
HmcWrite(v) ==
    /\ frequency' \in {v, frequency}
    /\ TxNextLine
    /\ UNCHANGED <<devvars, enabled, obsvars, last, prev, i, ret, ctx,
                   failure_line, stop_loop, written, pushed, prog,
                   dummy_buff, dummy_double, dummy_int, rampvars, ddsvars>>

(* iio_channel_attr_write_double(coretx, "frequency", dummy_double / 2.0); *)
HmcWriteDouble == HmcIs("write_double") /\ HmcWrite(dummy_double \div 2)

(* iio_channel_attr_write_longlong(coretx, "frequency", dummy_int / 4); *)
HmcWriteLonglong == HmcIs("write_longlong") /\ HmcWrite(dummy_int \div 4)

(* iio_channel_attr_write(coretx, "frequency", dummy_buff); *)
HmcWriteString == HmcIs("write_string") /\ HmcWrite(dummy_buff)

(* iio_channel_attr_read_double(coretx, "frequency", &dummy_double); *)
HmcReadDouble ==
    /\ HmcIs("read_double")
    /\ dummy_double' = frequency
    /\ TxNextLine
    /\ UNCHANGED <<devvars, enabled, obsvars, last, prev, i, ret, ctx,
                   failure_line, stop_loop, written, pushed, prog,
                   frequency, dummy_buff, dummy_int, rampvars, ddsvars>>

(* iio_channel_attr_read_longlong(coretx, "frequency", &dummy_int); *)
HmcReadLonglong ==
    /\ HmcIs("read_longlong")
    /\ dummy_int' = frequency
    /\ TxNextLine
    /\ UNCHANGED <<devvars, enabled, obsvars, last, prev, i, ret, ctx,
                   failure_line, stop_loop, written, pushed, prog,
                   frequency, dummy_buff, dummy_double, rampvars, ddsvars>>

(* result = iio_channel_attr_read(refclk2, "freq", ...) and                *)
(* result = iio_device_attr_write(hmc7044, "sync_pin_mode",                *)
(* "invalid_value"): the library answers with a negative errno.            *)
HmcBadCall ==
    /\ HmcIs("bad_call")
    /\ \E e \in 1 .. MaxErrno : result' = -e
    /\ TxNextLine
    /\ UNCHANGED <<devvars, enabled, bval, uval, sample_buff, last, prev, i,
                   ret, ctx, failure_line, txvars>>

(* clean: iio_context_destroy(ctx); *)
HmcClean ==
    /\ HmcIs("clean_context")
    /\ ctx' = FALSE
    /\ TxNextLine
    /\ UNCHANGED <<devvars, enabled, obsvars, last, prev, i, ret,
                   failure_line, txvars>>

(* return ret; ret was never assigned on this path *)
HmcReturn ==
    /\ HmcIs("return")
    /\ pc' = TxExited
    /\ ret' \in (IF ret = "indeterminate"
                 THEN {"EXIT_SUCCESS", "EXIT_FAILURE"} ELSE {ret})
    /\ UNCHANGED <<devvars, enabled, obsvars, last, prev, i, ctx,
                   failure_line, txvars>>

NextHmc ==
    \/ HmcCreateContext
    \/ HmcFindDevice
    \/ HmcFindChannel
    \/ HmcReadAll
    \/ HmcWriteDouble
    \/ HmcReadDouble
    \/ HmcWriteLonglong
    \/ HmcReadLonglong
    \/ HmcWriteString
    \/ HmcBadCall
    \/ HmcClean
    \/ HmcReturn

SpecHmc == InitHmc /\ [][NextHmc]_vars

(***************************************************************************)
(* The full set-up example: load_dds_tone of ad9081_fullsetup.c, called    *)
(* for the DDS channels of output i with the configuration tone_config.    *)
(* Degrees are whole numbers, scales are in thousandths.  Every attribute  *)
(* write is taken by the driver; a failed one would only print.            *)
(***************************************************************************)
RECURSIVE NormalizeDown(_), NormalizeUp(_)

(* while( degs >= 360.0 ) { degs -= 360.0; } *)
NormalizeDown(degs) == IF degs >= 360 THEN NormalizeDown(degs - 360) ELSE degs

(* while( degs < 0.0 ) { degs += 360.0; } *)
NormalizeUp(degs) == IF degs < 0 THEN NormalizeUp(degs + 360) ELSE degs

normalize_degrees(degs) == NormalizeUp(NormalizeDown(degs))

(* pow(10, db/20.0), in thousandths, for the gains the model uses. *)
dbfs_to_linear(db) ==
    CASE db = 0 -> 1000
      [] db = -20 -> 100
      [] db = -40 -> 10

(* (long long)(degrees * 1000.0) *)
MilliDegrees(degs) == degs * 1000

PhaseDegs == {-90, 0, 90, 360, 450}
ScaleDbfs == {0, -20}
OldPhases == {0, 45000}

(* The configurations load_dds_tone is called with: the disabled one of    *)
(* dds_default_configs and enabled ones over the phases and gains above.   *)
ToneConfigs ==
    {NoTone} \cup
    {[enabled |-> TRUE, freq_hz |-> 4018290, phase_deg |-> p, scale_dbfs |-> g] :
        p \in PhaseDegs, g \in ScaleDbfs}

DdsIs(op) == prog = "fullsetup" /\ TxAt /\ TxStmt.op = op

InitDds ==
    /\ InitDevice
    /\ prog = "fullsetup"
    /\ pc = Main[1].line
    /\ i \in Channels
    /\ ret = "indeterminate"
    /\ ctx = TRUE
    /\ failure_line = 0
    /\ stop_loop = FALSE
    /\ written = FALSE
    /\ pushed = 0
    /\ frequency = 0
    /\ dummy_buff = 0
    /\ dummy_double = 0
    /\ dummy_int = 0
    /\ ramp_i = [c \in Channels |-> 0]
    /\ ramp_q = [c \in Channels |-> 0]
    /\ frame = <<>>
    /\ tone_config \in ToneConfigs
    /\ \E p \in OldPhases :
         dds = [t \in DdsChannels |-> Attrs(0, dbfs_to_linear(0), p, FALSE)]

(* An attribute write that leaves the arbiter alone. *)
DdsWrite(new) ==
    /\ dds' = new
    /\ UNCHANGED <<devvars, enabled, obsvars, last, prev, i, ret, ctx,
                   failure_line, stop_loop, written, pushed, prog, hmcvars,
                   rampvars, tone_config>>

(* iio_channel_attr_write_double(dds_ch->tone2.ch_i, "scale", 0.0); then   *)
(* the same on tone2.ch_q.                                                 *)
DdsScale2 ==
    \/ /\ DdsIs("scale2_i") /\ TxNextLine
       /\ DdsWrite([dds EXCEPT !["tone2_i"].scale = 0])
    \/ /\ DdsIs("scale2_q") /\ TxNextLine
       /\ DdsWrite([dds EXCEPT !["tone2_q"].scale = 0])

(* if(tone_config->enabled) ... else ... *)
DdsIfEnabled ==
    /\ DdsIs("if_enabled")
    /\ pc' = IF tone_config.enabled
             THEN TxLineOf("frequency_i") ELSE TxLineOf("zero1_i")
    /\ UNCHANGED <<devvars, enabled, obsvars, last, prev, i, ret, ctx,
                   failure_line, txvars>>

(* iio_channel_attr_write_longlong(tone1.ch_i, "frequency", freq_hz); then *)
(* the same on tone1.ch_q.                                                 *)
DdsFrequency ==
    \/ /\ DdsIs("frequency_i") /\ TxNextLine
       /\ DdsWrite([dds EXCEPT !["tone1_i"].frequency = tone_config.freq_hz])
    \/ /\ DdsIs("frequency_q") /\ TxNextLine
       /\ DdsWrite([dds EXCEPT !["tone1_q"].frequency = tone_config.freq_hz])

(* iio_channel_attr_write_double(tone1.ch_i, "scale",                      *)
(*     dbfs_to_linear(tone_config->scale_dbfs)); then the same on ch_q.    *)
DdsScale1 ==
    \/ /\ DdsIs("scale1_i") /\ TxNextLine
       /\ DdsWrite([dds EXCEPT !["tone1_i"].scale =
                                   dbfs_to_linear(tone_config.scale_dbfs)])
    \/ /\ DdsIs("scale1_q") /\ TxNextLine
       /\ DdsWrite([dds EXCEPT !["tone1_q"].scale =
                                   dbfs_to_linear(tone_config.scale_dbfs)])

(* iio_channel_attr_write_longlong(dds_ch->tone1.ch_i, "phase",            *)
(*     (long long)(normalize_degrees(phase_deg - 90.0) * 1000.0));         *)
DdsPhaseI ==
    /\ DdsIs("phase_i") /\ TxNextLine
    /\ DdsWrite([dds EXCEPT !["tone1_i"].phase =
           MilliDegrees(normalize_degrees(tone_config.phase_deg - 90))])

(* iio_channel_attr_write_longlong(dds_ch->tone1.ch_i, "phase",            *)
(*     (long long)(normalize_degrees(phase_deg) * 1000.0));                *)
(* the channel written is tone1.ch_i, as in the source.                    *)
DdsPhaseQ ==
    /\ DdsIs("phase_q") /\ TxNextLine
    /\ DdsWrite([dds EXCEPT !["tone1_i"].phase =
           MilliDegrees(normalize_degrees(tone_config.phase_deg))])

(* iio_channel_attr_write_bool(tone1.ch_i, "raw", true); then on ch_q.     *)
(* The write goes through the arbiter as every "raw" write does.           *)
DdsRaw ==
    /\ \/ /\ DdsIs("raw_i") /\ TxNextLine
          /\ dds' = [dds EXCEPT !["tone1_i"].raw = TRUE]
       \/ /\ DdsIs("raw_q") /\ pc' = TxLineOf("return")
          /\ dds' = [dds EXCEPT !["tone1_q"].raw = TRUE]
    /\ set_raw(i, TRUE)
    /\ UNCHANGED <<i, ret, ctx, failure_line, stop_loop, written, pushed,
                   prog, hmcvars, rampvars, tone_config>>

(* else: iio_channel_attr_write_double(tone1.ch_i, "scale", 0.0); then the *)
(* same on tone1.ch_q.                                                     *)
DdsZero1 ==
    \/ /\ DdsIs("zero1_i") /\ TxNextLine
       /\ DdsWrite([dds EXCEPT !["tone1_i"].scale = 0])
    \/ /\ DdsIs("zero1_q") /\ TxNextLine
       /\ DdsWrite([dds EXCEPT !["tone1_q"].scale = 0])

(* load_dds_tone returns. *)
DdsReturn ==
    /\ DdsIs("return")
    /\ pc' = TxExited
    /\ UNCHANGED <<devvars, enabled, obsvars, last, prev, i, ret, ctx,
                   failure_line, txvars>>

NextDds ==
    \/ DdsScale2
    \/ DdsIfEnabled
    \/ DdsFrequency
    \/ DdsScale1
    \/ DdsPhaseI
    \/ DdsPhaseQ
    \/ DdsRaw
    \/ DdsZero1
    \/ DdsReturn

SpecDds == InitDds /\ [][NextDds]_vars

(***************************************************************************)
(* The ramp generator of the multi-channel example: the loops at lines     *)
(* 243-248 of ad9081_multich_tx.c, from the state load_channels and the    *)
(* set-up leave, running over frame after frame.  Where one buffer ends    *)
(* and the next begins is the library's matter and leaves the ramps alone. *)
(***************************************************************************)
L_frame == 243
L_write_i == 245
L_write_q == 246

(* One value written through *p_dat++. *)
Sample(c, part, val) == [ch |-> c, part |-> part, val |-> val]

RampIs(line) == prog = "multich_tx" /\ pc = line /\ sample_buff

InitRamp ==
    /\ raw_requested = [c \in Channels |-> FALSE]
    /\ buffer_open = [c \in Channels |-> TRUE]
    /\ processed_enabled = [c \in Channels |-> FALSE]
    /\ register_value = [r \in Regs |-> DATA_SEL_DMA]
    /\ enabled = Channels
    /\ result = 0
    /\ bval = FALSE
    /\ uval = 0
    /\ sample_buff = TRUE
    /\ last = Call("open_stream_buffer", 0, FALSE)
    /\ prev = [Device EXCEPT !.buf = [c \in Channels |-> FALSE],
                             !.reg = [r \in Regs |-> DATA_SEL_ZERO]]
    /\ prog = "multich_tx"
    /\ pc = L_frame
    /\ i = 0
    /\ ret = "indeterminate"
    /\ ctx = TRUE
    /\ failure_line = 0
    /\ stop_loop = FALSE
    /\ written = FALSE
    /\ pushed = 0
    /\ frequency = 0
    /\ dummy_buff = 0
    /\ dummy_double = 0
    /\ dummy_int = 0
    /\ ramp_i = [c \in Channels |-> 0]
    /\ ramp_q = [c \in Channels |-> RAMP_Q_START]
    /\ frame = <<>>
    /\ tone_config = NoTone
    /\ dds = [t \in DdsChannels |-> Attrs(0, 0, 0, FALSE)]

(* while(p_dat < p_end) { for( i = 0; ...: a new frame is begun. *)
RampFrame ==
    /\ RampIs(L_frame)
    /\ frame' = <<>>
    /\ i' = 0
    /\ pc' = L_write_i
    /\ UNCHANGED <<devvars, enabled, obsvars, last, prev, ret, ctx,
                   failure_line, stop_loop, written, pushed, prog, hmcvars,
                   ramp_i, ramp_q, ddsvars>>

(* *p_dat++ = tx_channels[i].ramp_i =                                      *)
(*     tx_channels[i].ramp_i + tx_channels[i].ramp_inc;                    *)
RampWriteI ==
    /\ RampIs(L_write_i)
    /\ ramp_i' = [ramp_i EXCEPT ![i] = (ramp_i[i] + ramp_inc(i)) % Word]
    /\ frame' = Append(frame, Sample(i, "I", ramp_i'[i]))
    /\ written' = TRUE
    /\ pc' = L_write_q
    /\ UNCHANGED <<devvars, enabled, obsvars, last, prev, i, ret, ctx,
                   failure_line, stop_loop, pushed, prog, hmcvars, ramp_q,
                   ddsvars>>

(* *p_dat++ = tx_channels[i].ramp_q =                                      *)
(*     tx_channels[i].ramp_q + tx_channels[i].ramp_inc;                    *)
(* then i++ and the test i < NUM_TX_CH.                                    *)
RampWriteQ ==
    /\ RampIs(L_write_q)
    /\ ramp_q' = [ramp_q EXCEPT ![i] = (ramp_q[i] + ramp_inc(i)) % Word]
    /\ frame' = Append(frame, Sample(i, "Q", ramp_q'[i]))
    /\ i' = i + 1
    /\ pc' = IF i + 1 < NUM_TX_CH THEN L_write_i ELSE L_frame
    /\ UNCHANGED <<devvars, enabled, obsvars, last, prev, ret, ctx,
                   failure_line, stop_loop, written, pushed, prog, hmcvars,
                   ramp_i, ddsvars>>

NextRamp ==
    \/ RampFrame
    \/ RampWriteI
    \/ RampWriteQ

SpecRamp == InitRamp /\ [][NextRamp]_vars

(***************************************************************************)
(* Properties.                                                             *)
(***************************************************************************)
AllRegs(v) == \A r \in Regs : register_value[r] = v
WasCall(op) == last.op = op
Unchanged == Device = prev

(* C1 as stated: in every reachable state every pair's registers equal     *)
(* the mapping table applied to its three flags.                           *)
C1_RegisterEqualsMappingTable ==
    \A c \in Channels : \A r \in RegsOf(c) :
        register_value[r] =
            MappingTable(raw_requested[c], buffer_open[c],
                         processed_enabled[c])

(* C1 amended: the register is 0x2 while processed_enabled or buffer_open; *)
(* otherwise 0x0 if raw_requested; otherwise 0x3 or 0x0: 0x3 right after   *)
(* an accepted set_raw(false), 0x0 right after a buffer was destroyed or   *)
(* an enabled processed input was disabled.                                *)
C1_RegisterFollowsLastModeChange ==
    \A c \in Channels : \A r \in RegsOf(c) :
        /\ (processed_enabled[c] \/ buffer_open[c])
              => register_value[r] = DATA_SEL_DMA
        /\ (~processed_enabled[c] /\ ~buffer_open[c] /\ raw_requested[c])
              => register_value[r] = DATA_SEL_DDS
        /\ (~processed_enabled[c] /\ ~buffer_open[c] /\ ~raw_requested[c])
              => /\ register_value[r] \in {DATA_SEL_ZERO, DATA_SEL_DDS}
                 /\ (WasCall("set_raw") /\ result = 0)
                       => register_value[r] = DATA_SEL_ZERO
                 /\ WasCall("close_stream_buffer")
                       => register_value[r] = DATA_SEL_DDS
                 /\ (WasCall("set_processed_input") /\ prev.proc[c])
                       => register_value[r] = DATA_SEL_DDS

(* C1 witness: a buffer was destroyed with raw_requested false and the     *)
(* registers read 0x0.                                                     *)
C1_Witness ==
    /\ WasCall("close_stream_buffer")
    /\ ~raw_requested[0]
    /\ AllRegs(DATA_SEL_DDS)

(* C2: no pair has buffer_open and processed_enabled together. *)
C2_BufferExcludesProcessed ==
    \A c \in Channels : ~(buffer_open[c] /\ processed_enabled[c])

(* C2 witness: both lock-outs have been exercised: input was refused under *)
(* an open buffer.                                                         *)
C2_Witness ==
    /\ last = Call("set_processed_input", 1, TRUE)
    /\ buffer_open[1]
    /\ result = -EBUSY

(* C3: set_processed_input(c, true) under an open buffer returns -EBUSY,   *)
(* leaves every register as it was, at 0x2, and leaves processed_enabled   *)
(* false; a read of "input" returns the stored flag.                       *)
C3_EnableUnderBufferIsBusy ==
    /\ \A c \in Channels :
         (last = Call("set_processed_input", c, TRUE) /\ prev.buf[c])
            => /\ result = -EBUSY
               /\ register_value = prev.reg
               /\ \A r \in RegsOf(c) : register_value[r] = DATA_SEL_DMA
               /\ ~processed_enabled[c]
    /\ \A c \in Channels :
         (last = Call("read_input", c, FALSE) /\ prev.buf[c])
            => bval = FALSE /\ result = 0

(* C3 witness: the refused enable has happened. *)
C3_Witness ==
    /\ last = Call("set_processed_input", 0, TRUE)
    /\ prev.buf[0]
    /\ result = -EBUSY
    /\ AllRegs(DATA_SEL_DMA)

C5_RawLockedWhileProcessed ==
    \A c \in Channels : \A v \in BOOLEAN :
        (last = Call("set_raw", c, v) /\ prev.proc[c])
            => /\ result = -EBUSY
               /\ raw_requested = prev.raw
               /\ register_value = prev.reg

(* C5 witness: raw = true was refused on a pair whose stored request is    *)
(* false.                                                                  *)
C5_Witness ==
    /\ last = Call("set_raw", 0, TRUE)
    /\ prev.proc[0]
    /\ ~raw_requested[0]
    /\ result = -EBUSY

NoFailure(lo, hi) == failure_line \notin lo .. hi
NoRaw == \A c \in Channels : ~raw_requested[c]
AllRaw == \A c \in Channels : raw_requested[c]
NoBuffer == \A c \in Channels : ~buffer_open[c]
AllBuffer == \A c \in Channels : buffer_open[c]
NoProcessed == \A c \in Channels : ~processed_enabled[c]
AllProcessed == \A c \in Channels : processed_enabled[c]

(* Scenario A up to the refused enable: from raw_requested = buffer_open = *)
(* processed_enabled = false with registers 0x3, opening a buffer gives    *)
(* 0x2, and set_processed_input(true) is then -EBUSY with registers 0x2.   *)
ScenarioA_UntilClose ==
    /\ pc = 205 => NoRaw /\ NoBuffer /\ NoProcessed /\ AllRegs(DATA_SEL_ZERO)
    /\ pc = 213 => sample_buff /\ AllBuffer /\ AllRegs(DATA_SEL_DMA)
    /\ pc = 215 => result = -EBUSY /\ NoProcessed /\ AllRegs(DATA_SEL_DMA)
    /\ NoFailure(195, 223)

(* C7 as stated: scenario A ends with the registers at 0x3 once the buffer *)
(* is closed, raw_requested being still false.                             *)
C7_ScenarioA_CloseGives0x3 ==
    /\ ScenarioA_UntilClose
    /\ pc = 228 => NoRaw /\ NoBuffer /\ AllRegs(DATA_SEL_ZERO)

(* C7 amended: scenario A ends with the registers at 0x0 (DDS) once the    *)
(* buffer is closed, although raw_requested is still false.                *)
C7_ScenarioA_CloseGives0x0 ==
    /\ ScenarioA_UntilClose
    /\ pc = 228 => NoRaw /\ NoBuffer /\ AllRegs(DATA_SEL_DDS)

(* C7 witness: the buffer of scenario A has just been closed. *)
C7_Witness ==
    /\ pc = 228
    /\ i = 0
    /\ WasCall("close_stream_buffer")
    /\ prev.buf[0]
    /\ failure_line = 0

(* C8: after raw = false, a buffer created over all pairs and destroyed,   *)
(* every one of the NUM_TX_CH * 2 registers reads 0x0, at both places the  *)
(* test destroys a buffer, and neither register check fails.               *)
C8_RegistersReadDdsAfterDestroy ==
    /\ pc \in {228, 315} =>
         /\ NoRaw
         /\ AllRegs(DATA_SEL_DDS)
         /\ i > 0 => uval = DATA_SEL_DDS
    /\ failure_line \notin {230, 317}

(* C8 witness: the second destroy is behind and all registers were read. *)
C8_Witness ==
    /\ pc = 315
    /\ i = NUM_TX_CH * 2
    /\ uval = DATA_SEL_DDS
    /\ NoRaw

(* C9: after raw = false (registers 0x3), input enabled (registers 0x2)    *)
(* and input disabled again, every register reads 0x0.                     *)
C9_RegistersReadDdsAfterDisable ==
    /\ pc = 251 => NoRaw /\ NoProcessed /\ AllRegs(DATA_SEL_ZERO)
    /\ pc \in {253, 258, 264} => AllProcessed /\ AllRegs(DATA_SEL_DMA)
    /\ pc \in {276, 281} =>
         /\ NoRaw /\ NoProcessed
         /\ AllRegs(DATA_SEL_DDS)
         /\ (pc = 281 /\ i > 0) => uval = DATA_SEL_DDS
    /\ NoFailure(241, 261)
    /\ NoFailure(275, 283)

(* C9 witness: input was disabled and all registers were read back. *)
C9_Witness ==
    /\ pc = 281
    /\ i = NUM_TX_CH * 2
    /\ uval = DATA_SEL_DDS
    /\ NoRaw

(* C10: scenario B: with raw_requested = true the registers are 0x0;       *)
(* set_processed_input(true) succeeds and gives 0x2; set_raw(false) is     *)
(* then -EBUSY; creating a buffer returns no handle;                       *)
(* set_processed_input(false) succeeds and the registers are 0x0 again.    *)
C10_ScenarioB ==
    /\ pc = 339 => AllRaw /\ NoProcessed /\ AllRegs(DATA_SEL_DDS)
    /\ pc = 341 => result = 0 /\ AllProcessed /\ AllRegs(DATA_SEL_DMA)
    /\ pc = 354 =>
         /\ last = Call("set_raw", 0, FALSE)
         /\ result = -EBUSY
         /\ AllRaw /\ AllRegs(DATA_SEL_DMA)
    /\ pc = 363 =>
         /\ WasCall("open_stream_buffer")
         /\ ~sample_buff
         /\ NoBuffer /\ AllProcessed /\ AllRegs(DATA_SEL_DMA)
    /\ pc = 365 =>
         /\ last = Call("set_processed_input", 0, FALSE)
         /\ result = 0
         /\ NoProcessed /\ AllRaw /\ AllRegs(DATA_SEL_DDS)
    /\ NoFailure(329, 370)

(* C10 witness: scenario B ran to its end. *)
C10_Witness ==
    /\ pc = 373
    /\ AllRaw
    /\ AllRegs(DATA_SEL_DDS)
    /\ failure_line = 0


(***************************************************************************)
(* The drive sources of a pair, read off its two control registers as the  *)
(* test's comments name them: 0x0 is DDS, 0x2 is DMA (fed by the buffer    *)
(* or by the processed input, whichever is engaged), 0x3 is Zero: no       *)
(* source drives the output.                                               *)
(***************************************************************************)
PairRegs(c, v) == \A r \in RegsOf(c) : register_value[r] = v

Mode(c) ==
    {m \in {"DDS_TONE"} : PairRegs(c, DATA_SEL_DDS)}
    \cup {m \in {"DMA_STREAM"} :
            buffer_open[c] /\ PairRegs(c, DATA_SEL_DMA)}
    \cup {m \in {"PROCESSED_INPUT"} :
            processed_enabled[c] /\ PairRegs(c, DATA_SEL_DMA)}

C12_CloseKeepsRawAndProcessed ==
    /\ (\E c \in Channels : buffer_open[c]) => ENABLED DestroyBuffer
    /\ WasCall("close_stream_buffer") =>
         /\ \A c \in Channels : prev.buf[c] => ~buffer_open[c]
         /\ raw_requested = prev.raw
         /\ processed_enabled = prev.proc

(* A buffer destroyed with raw = 0 requested: the request stays 0 although *)
(* the registers go to DDS.                                                *)
C12_Witness ==
    /\ WasCall("close_stream_buffer")
    /\ \A c \in Channels : prev.buf[c] /\ ~buffer_open[c]
    /\ \A c \in Channels : ~prev.raw[c] /\ ~raw_requested[c]
    /\ AllRegs(DATA_SEL_DDS)


(* C13: a buffer creation that succeeds leaves every register of the set   *)
(* at 0x2, whether the raw request was 1 or 0 beforehand, and leaves the   *)
(* raw request of every pair as it was.                                    *)
C13_OpenSelectsDmaKeepsRaw ==
    (WasCall("open_stream_buffer") /\ sample_buff) =>
        /\ \A c \in Channels : buffer_open[c] /\ PairRegs(c, DATA_SEL_DMA)
        /\ raw_requested = prev.raw

(* A buffer created while raw = 1 was requested and the registers read     *)
(* DDS.                                                                    *)
C13_Witness ==
    /\ WasCall("open_stream_buffer")
    /\ sample_buff
    /\ \A c \in Channels : prev.raw[c] /\ raw_requested[c] /\ ~prev.buf[c]
    /\ \A r \in Regs : prev.reg[r] = DATA_SEL_DDS
    /\ AllRegs(DATA_SEL_DMA)


(* C14: writing "input" = 1 while no buffer is open is accepted, from the  *)
(* DDS baseline (raw = 1) and from the Zero baseline (raw = 0) alike,      *)
(* leaves the pair's registers at 0x2 and "input" engaged; a read of       *)
(* "input" returns the engaged value, so the read that follows returns     *)
(* true.                                                                   *)
C14_EnableSucceedsWithoutBuffer ==
    \A c \in Channels :
        /\ (last = Call("set_processed_input", c, TRUE) /\ ~prev.buf[c]) =>
             /\ result = 0
             /\ PairRegs(c, DATA_SEL_DMA)
             /\ processed_enabled[c]
        /\ last = Call("read_input", c, FALSE) =>
             /\ result = 0
             /\ bval = prev.proc[c]
             /\ processed_enabled[c] = prev.proc[c]

(* "input" enabled out of the DDS baseline, raw = 1 requested. *)
C14_Witness ==
    /\ last = Call("set_processed_input", 0, TRUE)
    /\ result = 0
    /\ \A c \in Channels : prev.raw[c] /\ ~prev.buf[c] /\ ~prev.proc[c]
    /\ \A r \in Regs : prev.reg[r] = DATA_SEL_DDS
    /\ AllProcessed
    /\ AllRegs(DATA_SEL_DMA)


(* C15: a refusal lasts exactly as long as the flag behind it.  A raw      *)
(* write is refused if and only if "input" is engaged, an "input" = 1      *)
(* write if and only if a buffer is open, a buffer creation if and only if *)
(* "input" is engaged; so a retry with the flag still set is refused again *)
(* and a retry after the flag is cleared is accepted.  The test runs each  *)
(* sequence: "input" refused at 213, buffer destroyed at 226, "input"      *)
(* accepted at 251; raw refused at 264 and again at 266, creation refused  *)
(* at 270, "input" cleared at 274, creation accepted at 296, raw accepted  *)
(* at 328; none of its assertions on these outcomes fails.                 *)
C15_BusyClearsWithItsFlag ==
    /\ \A c \in Channels, v \in BOOLEAN :
         last = Call("set_raw", c, v) =>
            (result = -EBUSY <=> prev.proc[c])
    /\ \A c \in Channels :
         last = Call("set_processed_input", c, TRUE) =>
            (result = -EBUSY <=> prev.buf[c])
    /\ WasCall("open_stream_buffer") =>
         (~sample_buff <=> \E c \in Channels : prev.proc[c])
    /\ NoFailure(212, 355)

(* The creation refused at line 270 is accepted at line 296, after "input" *)
(* was cleared at line 274.                                                *)
C15_Witness ==
    /\ pc = 300
    /\ WasCall("open_stream_buffer")
    /\ sample_buff
    /\ AllBuffer
    /\ NoProcessed
    /\ failure_line = 0


(* C16: a register read changes no flag and no register of any pair and    *)
(* returns the register's current value, so that reads between two         *)
(* mutating operations all return the same value.                          *)
C16_ReadRegisterIsPure ==
    \A r \in Regs :
        last = Call("read_register", r, FALSE) =>
            /\ Unchanged
            /\ uval = register_value[r]


(* C17: an accepted "raw" write through pair 0's DDS channel, or an        *)
(* accepted "input" = 1 write through pair 0's DAC channel, leaves all     *)
(* NUM_TX_CH * 2 control registers at the same new value: 0x3 after        *)
(* raw = 0, 0x0 after raw = 1, 0x2 after input = 1.                        *)
C17_WriteThroughPairZeroIsGlobal ==
    /\ (last = Call("set_raw", 0, FALSE) /\ result = 0) =>
          AllRegs(DATA_SEL_ZERO)
    /\ (last = Call("set_raw", 0, TRUE) /\ result = 0) =>
          AllRegs(DATA_SEL_DDS)
    /\ (last = Call("set_processed_input", 0, TRUE) /\ result = 0) =>
          AllRegs(DATA_SEL_DMA)

(* The raw = 0 write of line 240: the registers of every pair, read DDS    *)
(* after the destroy, all go to Zero.                                      *)
C17_Witness ==
    /\ last = Call("set_raw", 0, FALSE)
    /\ result = 0
    /\ \A r \in Regs : prev.reg[r] = DATA_SEL_DDS
    /\ AllRegs(DATA_SEL_ZERO)
    /\ register_value[NUM_TX_CH * 2 - 1] = DATA_SEL_ZERO


(* The last call was refused: a raw or "input" write returned -EBUSY, or a  *)
(* buffer creation returned NULL.                                          *)
Refused ==
    \/ last.op \in {"set_raw", "set_processed_input"} /\ result = -EBUSY
    \/ last.op = "open_stream_buffer" /\ ~sample_buff

(* C18: a refused operation applies no part of its change.  After a raw    *)
(* or "input" write that returned -EBUSY, and after a buffer creation that *)
(* returned NULL, the raw_requested, buffer_open, processed_enabled and    *)
(* register_value of every pair are what they were before the call.        *)
C18_RefusalChangesNothing == Refused => Unchanged

(* A raw write asking for a change, refused while "input" is engaged. *)
C18_Witness ==
    /\ last = Call("set_raw", 0, TRUE)
    /\ result = -EBUSY
    /\ AllProcessed
    /\ NoRaw
    /\ AllRegs(DATA_SEL_DMA)
    /\ Unchanged


(* C19: over any operation step at which a pair's "input" is engaged both  *)
(* before and after, the pair's raw_requested and buffer_open do not       *)
(* change: raw writes and buffer creations are refused, and no buffer is   *)
(* open to be destroyed.                                                   *)
C19_ProcessedFreezesRawAndBuffer ==
    \A c \in Channels :
        (prev.proc[c] /\ processed_enabled[c]) =>
            /\ raw_requested[c] = prev.raw[c]
            /\ buffer_open[c] = prev.buf[c]
            /\ ~buffer_open[c]

(* A buffer creation attempted, and a raw change attempted, with "input"   *)
(* engaged before and after.                                               *)
C19_Witness ==
    /\ WasCall("open_stream_buffer")
    /\ \A c \in Channels : prev.proc[c] /\ processed_enabled[c]
    /\ \A c \in Channels : raw_requested[c] = prev.raw[c]
    /\ NoBuffer
    /\ ~sample_buff
    /\ result = -EBUSY


SameTriple(c) ==
    /\ raw_requested[c] = prev.raw[c]
    /\ buffer_open[c] = prev.buf[c]
    /\ processed_enabled[c] = prev.proc[c]

AllClear(c) == ~raw_requested[c] /\ ~buffer_open[c] /\ ~processed_enabled[c]

C22_IAndQRegistersAgree ==
    \A c \in Channels :
        /\ register_value[2 * c] = register_value[2 * c + 1]
        /\ (register_value[2 * c] # prev.reg[2 * c])
              <=> (register_value[2 * c + 1] # prev.reg[2 * c + 1])

(* A buffer creation that moved both words of every pair from Zero to DMA. *)
C22_Witness ==
    /\ WasCall("open_stream_buffer")
    /\ sample_buff
    /\ \A c \in Channels :
         /\ prev.reg[2 * c] = DATA_SEL_ZERO
         /\ prev.reg[2 * c + 1] = DATA_SEL_ZERO
         /\ register_value[2 * c] = DATA_SEL_DMA
         /\ register_value[2 * c + 1] = DATA_SEL_DMA


(* C23: a read of "input" returns the value of the last accepted "input"   *)
(* write, false before any.  The value read is the stored one; an accepted *)
(* write stores its value; a refused write, a raw write, a buffer creation *)
(* or destruction, and the reads leave the stored value as it was.  The    *)
(* test reads "input" back after each of these and none of its assertions  *)
(* fails.                                                                  *)
C23_InputReadsLastAcceptedWrite ==
    /\ last.op = "none" => NoProcessed
    /\ \A c \in Channels :
         /\ last = Call("read_input", c, FALSE) =>
               result = 0 /\ bval = processed_enabled[c]
         /\ \A v \in BOOLEAN :
               last = Call("set_processed_input", c, v) =>
                  IF result = 0
                  THEN processed_enabled[c] = v
                  ELSE processed_enabled = prev.proc
    /\ last.op \notin {"none", "set_processed_input"} =>
          processed_enabled = prev.proc
    /\ failure_line = 0

(* "input" read back true at line 253 after the write accepted at 251. *)
C23_Witness ==
    /\ last = Call("read_input", 0, FALSE)
    /\ bval
    /\ processed_enabled[0]
    /\ NoRaw
    /\ AllRegs(DATA_SEL_DMA)
    /\ failure_line = 0


(* Pair c's flags and registers are what they were before the last call. *)
PairUnchanged(c) ==
    /\ SameTriple(c)
    /\ \A r \in RegsOf(c) : register_value[r] = prev.reg[r]

NoLock == NoBuffer /\ NoProcessed

(* C25: no pair can be locked out for good.  In every reachable state      *)
(* either nothing blocks, and then a raw write, an "input" = 1 write and a *)
(* buffer creation are each accepted through every pair, or one call that  *)
(* is never refused, a buffer destruction or an "input" = 0 write, leads   *)
(* to a state where nothing blocks.                                        *)
C25_NoPermanentLockOut ==
    /\ NoLock =>
         /\ \A c \in Channels, v \in BOOLEAN :
               ENABLED (/\ set_raw(c, v)
                        /\ UNCHANGED progvars
                        /\ result' = 0
                        /\ raw_requested'[c] = v)
         /\ \A c \in Channels :
               ENABLED (/\ set_processed_input(c, TRUE)
                        /\ UNCHANGED progvars
                        /\ result' = 0
                        /\ processed_enabled'[c])
         /\ ENABLED (/\ open_stream_buffer(Channels)
                     /\ UNCHANGED progvars
                     /\ sample_buff'
                     /\ \A c \in Channels : buffer_open'[c])
    /\ (\E c \in Channels : buffer_open[c]) =>
         ENABLED (/\ DestroyBuffer
                  /\ \A c \in Channels :
                        ~buffer_open'[c] /\ ~processed_enabled'[c])
    /\ (\E c \in Channels : processed_enabled[c]) =>
         \A c \in Channels :
            ENABLED (/\ set_processed_input(c, FALSE)
                     /\ UNCHANGED progvars
                     /\ result' = 0
                     /\ \A x \in Channels :
                           ~buffer_open'[x] /\ ~processed_enabled'[x])

(* A raw write just refused because "input" is engaged, with the way out   *)
(* open: "input" = 0 is accepted.                                          *)
C25_Witness ==
    /\ last.op = "set_raw"
    /\ result = -EBUSY
    /\ AllProcessed
    /\ ENABLED (/\ set_processed_input(0, FALSE)
                /\ UNCHANGED progvars
                /\ result' = 0
                /\ \A x \in Channels : ~processed_enabled'[x])


C27_RaceHasOneWinner ==
    /\ NoBuffer \/ AllBuffer
    /\ NoLock =>
         /\ ENABLED (/\ open_stream_buffer(Channels)
                     /\ UNCHANGED progvars
                     /\ sample_buff'
                     /\ \A x \in Channels :
                           buffer_open'[x] /\ ~processed_enabled'[x])
         /\ \A c \in Channels :
               ENABLED (/\ set_processed_input(c, TRUE)
                        /\ UNCHANGED progvars
                        /\ result' = 0
                        /\ \A x \in Channels : ~buffer_open'[x]
                        /\ processed_enabled'[c])
    /\ (WasCall("open_stream_buffer") /\ sample_buff) =>
         \A c \in Channels :
            ENABLED (/\ set_processed_input(c, TRUE)
                     /\ UNCHANGED progvars
                     /\ result' = -EBUSY
                     /\ UNCHANGED devvars)
    /\ \A c \in Channels :
         (last = Call("set_processed_input", c, TRUE) /\ result = 0) =>
            ENABLED (/\ open_stream_buffer(Channels)
                     /\ UNCHANGED progvars
                     /\ ~sample_buff'
                     /\ UNCHANGED devvars)

(* The order creation first: the buffer is open on every pair, the         *)
(* "input" = 1 write that followed was refused and changed nothing.        *)
C27_Witness ==
    /\ last = Call("set_processed_input", NUM_TX_CH - 1, TRUE)
    /\ result = -EBUSY
    /\ sample_buff
    /\ AllBuffer
    /\ NoProcessed
    /\ AllRegs(DATA_SEL_DMA)
    /\ Unchanged


(* The pairs the program enables before it creates its buffer. *)
EnableSet == {EnableList[k] : k \in 1 .. Len(EnableList)}

(* C28: the set-up of the transmit examples runs in one order.  A pair is  *)
(* enabled only once the raw = 0 write was accepted; the buffer is created *)
(* only once every pair the program transmits on (all NUM_TX_CH pairs, I   *)
(* and Q, in the multi-channel example) is enabled; samples are written    *)
(* and pushed only once the buffer was created.  After a raw write that    *)
(* failed no pair is enabled and no buffer created; after a creation that  *)
(* failed no sample is written or pushed.                                  *)
C28_SetupOrder ==
    /\ enabled # {} =>
          /\ NoRaw /\ NoProcessed
          /\ pc >= TxLineOf("enable")
    /\ (sample_buff \/ WasCall("open_stream_buffer")) =>
          /\ enabled = EnableSet
          /\ NoRaw /\ NoProcessed
    /\ (written \/ pushed > 0) => sample_buff
    /\ (last.op = "set_raw" /\ result < 0) =>
          /\ enabled = {} /\ ~sample_buff /\ NoBuffer
          /\ ~written /\ pushed = 0
          /\ ret = "EXIT_FAILURE"
    /\ (WasCall("open_stream_buffer") /\ ~sample_buff) =>
          /\ NoBuffer
          /\ ~written /\ pushed = 0
          /\ ret = "EXIT_FAILURE"

(* The multi-channel example at clean after a buffer creation that failed: *)
(* raw = 0 was accepted over a request of 1, every pair is enabled, and    *)
(* nothing was written or pushed.                                          *)
C28_Witness ==
    /\ prog = "multich_tx"
    /\ pc = TxLineOf("clean_buffer")
    /\ WasCall("open_stream_buffer")
    /\ ~sample_buff
    /\ enabled = Channels
    /\ AllRegs(DATA_SEL_ZERO)
    /\ ~written /\ pushed = 0
    /\ ret = "EXIT_FAILURE"


(* main has returned with the context destroyed and no buffer left open. *)
TxDone == pc = TxExited /\ ~ctx /\ NoBuffer

(* C29: once SIGINT was delivered the program eventually leaves its loop   *)
(* and runs clean to the end, the buffer, if one was created, destroyed    *)
(* and then the context.  The loop is left only with stop_loop set or      *)
(* after a push that failed, and the context never goes while a buffer is  *)
(* open.                                                                   *)
C29_SigintLeadsToCleanup ==
    /\ stop_loop ~> TxDone
    /\ [](pc = TxLineOf("completed") => stop_loop)
    /\ []((sample_buff /\ pc >= TxLineOf("completed")) =>
             (stop_loop \/ result < 0))
    /\ []((\E c \in Channels : buffer_open[c]) => ctx)

(* SIGINT was delivered while buffers were being pushed; main has returned *)
(* with the buffer closed and the context destroyed.                       *)
C29_Witness ==
    /\ stop_loop
    /\ pushed > 0
    /\ result = 0
    /\ sample_buff
    /\ WasCall("close_stream_buffer")
    /\ TxDone


(* C30 as stated, for the patch test: a stream buffer that was created is  *)
(* destroyed before the context is destroyed and before main returns, so   *)
(* no buffer is open once the context is gone or main has returned, on the *)
(* paths where a TEST_ASSERT fails with a buffer open as on all others.    *)
C30_BufferDestroyedBeforeContext ==
    (\E c \in Channels : buffer_open[c]) => (ctx /\ pc # L_exited)


(* C31 as stated, for the attribute example: every path that returns from  *)
(* main after the context was created has destroyed it, the paths on which *)
(* the device or a channel is not found included; so no context is left    *)
(* once main has returned.                                                 *)
C31_ContextDestroyedBeforeReturn ==
    (prog = "hmc7044" /\ pc = TxExited) => ~ctx


(* C32 as stated: the value the patch test returns was assigned on every   *)
(* path, so ret holds a value when `return ret` is reached, and it is      *)
(* EXIT_FAILURE whenever a TEST_ASSERT has failed.                         *)
C32_ExitStatusIsAssigned ==
    /\ (prog = "none" /\ pc = L_return) => ret # "indeterminate"
    /\ (prog = "none" /\ pc = L_exited /\ failure_line # 0) =>
           ret = "EXIT_FAILURE"


(* C33 as stated: when load_dds_tone has returned for an enabled tone,     *)
(* tone 1's I channel holds the phase (phase_deg - 90) normalized to       *)
(* [0, 360), in millidegrees, tone 1's Q channel holds phase_deg           *)
(* normalized, in millidegrees, and raw = 1 was written on both; for a     *)
(* disabled tone the scales of tone 1 and tone 2 are 0 and raw was not     *)
(* written.                                                                *)
C33_ToneOneInQuadrature ==
    (prog = "fullsetup" /\ pc = TxExited) =>
        IF tone_config.enabled
        THEN /\ dds["tone1_i"].phase =
                  MilliDegrees(normalize_degrees(tone_config.phase_deg - 90))
             /\ dds["tone1_q"].phase =
                  MilliDegrees(normalize_degrees(tone_config.phase_deg))
             /\ dds["tone1_i"].raw /\ dds["tone1_q"].raw
        ELSE /\ \A t \in DdsChannels : dds[t].scale = 0 /\ ~dds[t].raw
             /\ ~WasCall("set_raw")


(* The program is in the loops that write the ramps. *)
InRamp == prog = "multich_tx" /\ pc \in {L_frame, L_write_i, L_write_q}

(* The sample the k-th write of a frame carries: pairs in channel order,   *)
(* I then Q, each with the value its ramp has just taken.                  *)
FrameSlot(k) ==
    Sample((k - 1) \div 2,
           IF k % 2 = 1 THEN "I" ELSE "Q",
           IF k % 2 = 1 THEN ramp_i[(k - 1) \div 2] ELSE ramp_q[(k - 1) \div 2])

(* C34: in the transmit loop of the multi-channel example, whenever the I  *)
(* and the Q value of a pair's sample are both written, ramp_q equals      *)
(* ramp_i + 0x8000 modulo 2^16; each write advances the ramp it writes by  *)
(* 2^i modulo 2^16 and leaves all others alone; and the writes of a frame  *)
(* go in channel order 0 .. NUM_TX_CH - 1, I then Q, each carrying the new *)
(* ramp value.                                                             *)
C34_RampsStayInQuadrature ==
    InRamp =>
        /\ \A c \in Channels :
              \/ pc = L_write_q /\ c = i
              \/ ramp_q[c] = (ramp_i[c] + RAMP_Q_START) % Word
        /\ pc = L_write_i =>
              /\ ENABLED (RampWriteI /\ ramp_q' = ramp_q /\ ramp_i' =
                    [ramp_i EXCEPT ![i] = (ramp_i[i] + 2 ^ i) % Word])
              /\ ~ENABLED (RampWriteI /\ ~(ramp_q' = ramp_q /\ ramp_i' =
                    [ramp_i EXCEPT ![i] = (ramp_i[i] + 2 ^ i) % Word]))
        /\ pc = L_write_q =>
              /\ ENABLED (RampWriteQ /\ ramp_i' = ramp_i /\ ramp_q' =
                    [ramp_q EXCEPT ![i] = (ramp_q[i] + 2 ^ i) % Word])
              /\ ~ENABLED (RampWriteQ /\ ~(ramp_i' = ramp_i /\ ramp_q' =
                    [ramp_q EXCEPT ![i] = (ramp_q[i] + 2 ^ i) % Word]))
        /\ \A k \in 1 .. Len(frame) : frame[k] = FrameSlot(k)
        /\ pc = L_write_i => Len(frame) = 2 * i
        /\ pc = L_write_q => Len(frame) = 2 * i + 1
        /\ pc = L_frame => Len(frame) \in {0, 2 * NUM_TX_CH}

(* A frame just completed in which ramp_q of pair 0 wrapped from 0xFFFF to *)
(* 0 while its ramp_i reached 0x8000, and the ramp_i of pair 1, twice as   *)
(* fast, wrapped to 0.                                                     *)
C34_Witness ==
    /\ InRamp
    /\ pc = L_frame
    /\ Len(frame) = 2 * NUM_TX_CH
    /\ ramp_i[0] = RAMP_Q_START
    /\ ramp_q[0] = 0
    /\ ramp_i[1] = 0
    /\ ramp_q[1] = RAMP_Q_START

====
